---------------------------- MODULE Spec2Model ----------------------------
(***************************************************************************)
(* HawkEye dependency scanner (src/main.py): the batch driver main(), the  *)
(* per-repository scan_repository() and the DependencyScanner it drives.   *)
(*                                                                         *)
(* Python strings are sequences of one-character strings, so that strip,   *)
(* split, startswith and lower are computed and not assumed.  A Python     *)
(* dict is the sequence of its <<key, value>> items in insertion order,    *)
(* with unique keys.  A Python value decoded from JSON is a record with a  *)
(* field t naming its type.                                                *)
(***************************************************************************)
EXTENDS Integers, Sequences, FiniteSets, TLC

(***************************************************************************)
(* String literals used below.                                             *)
(***************************************************************************)
Str_unknown == \* "unknown"
  <<"u","n","k","n","o","w","n">>
Str_yarn == \* "yarn"
  <<"y","a","r","n">>
Str_packageManager == \* "packageManager"
  <<"p","a","c","k","a","g","e","M","a","n","a","g","e","r">>
Str_dependencies == \* "dependencies"
  <<"d","e","p","e","n","d","e","n","c","i","e","s">>
Str_devDependencies == \* "devDependencies"
  <<"d","e","v","D","e","p","e","n","d","e","n","c","i","e","s">>
Str_a == \* "a"
  <<"a">>
Str_b == \* "b"
  <<"b">>
Str_c == \* "c"
  <<"c">>
Str_lodash == \* "lodash"
  <<"l","o","d","a","s","h">>
Str_babel_core == \* "@babel/core"
  <<"@","b","a","b","e","l","/","c","o","r","e">>
Str_flask == \* "flask"
  <<"f","l","a","s","k">>
Str_requests == \* "requests==2.0"
  <<"r","e","q","u","e","s","t","s","=","=","2",".","0">>
Str_pinned == \* "# pinned"
  <<"#"," ","p","i","n","n","e","d">>
Str_1_0_0 == \* "1.0.0"
  <<"1",".","0",".","0">>
Str_2_0_0 == \* "2.0.0"
  <<"2",".","0",".","0">>
Str_yarn3 == \* "yarn@3.0.0"
  <<"y","a","r","n","@","3",".","0",".","0">>
Str_YarnUpper == \* "Yarn@1.22.0"
  <<"Y","a","r","n","@","1",".","2","2",".","0">>
Str_npm9 == \* "npm@9.0.0"
  <<"n","p","m","@","9",".","0",".","0">>
Str_packageManager_yarn == \* "packageManager yarn"
  <<"p","a","c","k","a","g","e","M","a","n","a","g","e","r"," ","y","a","r","n">>
Text_empty == \* ""
  << >>
Text_blank == \* " \n"
  <<" ","\n">>
Text_malformed == \* "{\"dependencies\":"
  <<"{","\"","d","e","p","e","n","d","e","n","c","i","e","s","\"",":">>
Text_object_empty == \* "{}"
  <<"{","}">>
Text_pm_yarn == \* "{\"packageManager\":\"yarn@3.0.0\",\"dependencies\":{\"a\":\"1.0.0\"}}"
  <<"{","\"","p","a","c","k","a","g","e","M","a","n","a","g","e","r","\"",":","\"","y",
    "a","r","n","@","3",".","0",".","0","\"",",","\"","d","e","p","e","n","d","e","n","c",
    "i","e","s","\"",":","{","\"","a","\"",":","\"","1",".","0",".","0","\"","}","}">>
Text_pm_YarnUpper == \* "{\"packageManager\":\"Yarn@1.22.0\"}"
  <<"{","\"","p","a","c","k","a","g","e","M","a","n","a","g","e","r","\"",":","\"","Y",
    "a","r","n","@","1",".","2","2",".","0","\"","}">>
Text_pm_npm == \* "{\"packageManager\":\"npm@9.0.0\",\"devDependencies\":{\"b\":\"1.0.0\"}}"
  <<"{","\"","p","a","c","k","a","g","e","M","a","n","a","g","e","r","\"",":","\"","n",
    "p","m","@","9",".","0",".","0","\"",",","\"","d","e","v","D","e","p","e","n","d","e",
    "n","c","i","e","s","\"",":","{","\"","b","\"",":","\"","1",".","0",".","0","\"","}",
    "}">>
Text_pm_number == \* "{\"packageManager\":1,\"dependencies\":{\"a\":\"1.0.0\"}}"
  <<"{","\"","p","a","c","k","a","g","e","M","a","n","a","g","e","r","\"",":","1",",",
    "\"","d","e","p","e","n","d","e","n","c","i","e","s","\"",":","{","\"","a","\"",":",
    "\"","1",".","0",".","0","\"","}","}">>
Text_collision == \* "{\"dependencies\":{\"a\":\"1.0.0\",\"b\":\"1.0.0\"},\"devDependencies\":{\"a\":\"2.0.0\"}}"
  <<"{","\"","d","e","p","e","n","d","e","n","c","i","e","s","\"",":","{","\"","a","\"",
    ":","\"","1",".","0",".","0","\"",",","\"","b","\"",":","\"","1",".","0",".","0","\"",
    "}",",","\"","d","e","v","D","e","p","e","n","d","e","n","c","i","e","s","\"",":","{",
    "\"","a","\"",":","\"","2",".","0",".","0","\"","}","}">>
Text_array == \* "[1]"
  <<"[","1","]">>
Text_string == \* "\"packageManager yarn\""
  <<"\"","p","a","c","k","a","g","e","M","a","n","a","g","e","r"," ","y","a","r","n","\"">>
Text_deps_null == \* "{\"dependencies\":null,\"devDependencies\":{\"a\":\"2.0.0\"}}"
  <<"{","\"","d","e","p","e","n","d","e","n","c","i","e","s","\"",":","n","u","l","l",",",
    "\"","d","e","v","D","e","p","e","n","d","e","n","c","i","e","s","\"",":","{","\"",
    "a","\"",":","\"","2",".","0",".","0","\"","}","}">>
Text_yarn_scoped == \* "\"@babel/core@^7.0.0, @babel/core@^7.1.0\":\n  version \"7.1.0\"\n"
  <<"\"","@","b","a","b","e","l","/","c","o","r","e","@","^","7",".","0",".","0",","," ",
    "@","b","a","b","e","l","/","c","o","r","e","@","^","7",".","1",".","0","\"",":","\n",
    " "," ","v","e","r","s","i","o","n"," ","\"","7",".","1",".","0","\"","\n">>
Text_yarn_lodash == \* "# yarn lockfile v1\n\"lodash@^4.17.0\":\n  version \"4.17.21\"\n\"lodash@^4.16.0\":\n  version \"4.16.6\"\n"
  <<"#"," ","y","a","r","n"," ","l","o","c","k","f","i","l","e"," ","v","1","\n","\"","l",
    "o","d","a","s","h","@","^","4",".","1","7",".","0","\"",":","\n"," "," ","v","e","r",
    "s","i","o","n"," ","\"","4",".","1","7",".","2","1","\"","\n","\"","l","o","d","a",
    "s","h","@","^","4",".","1","6",".","0","\"",":","\n"," "," ","v","e","r","s","i","o",
    "n"," ","\"","4",".","1","6",".","6","\"","\n">>
Text_yarn_a == \* "\"a@^1.0.0\":\n  version \"1.0.0\"\n"
  <<"\"","a","@","^","1",".","0",".","0","\"",":","\n"," "," ","v","e","r","s","i","o",
    "n"," ","\"","1",".","0",".","0","\"","\n">>
Text_req_example == \* "requests==2.0\n\n# comment\nflask\n"
  <<"r","e","q","u","e","s","t","s","=","=","2",".","0","\n","\n","#"," ","c","o","m","m",
    "e","n","t","\n","f","l","a","s","k","\n">>
Text_req_indented == \* "flask\n  # pinned\n"
  <<"f","l","a","s","k","\n"," "," ","#"," ","p","i","n","n","e","d","\n">>
Env_unset == \* ""
  << >>
Env_b == \* "b"
  <<"b">>
Env_a_b == \* "a,b"
  <<"a",",","b">>
Env_a_space_b == \* "a, b"
  <<"a",","," ","b">>

(***************************************************************************)
(* Python str methods, as the scanner uses them.                           *)
(***************************************************************************)
\* str.strip() with no argument removes these characters.
Whitespace == {" ", "\n", "\t", "\r"}

UpperToLower ==
  [c \in {"A","B","C","D","E","F","G","H","I","J","K","L","M","N","O","P","Q","R","S",
          "T","U","V","W","X","Y","Z"} |->
     CASE c = "A" -> "a" [] c = "B" -> "b" [] c = "C" -> "c" [] c = "D" -> "d"
       [] c = "E" -> "e" [] c = "F" -> "f" [] c = "G" -> "g" [] c = "H" -> "h"
       [] c = "I" -> "i" [] c = "J" -> "j" [] c = "K" -> "k" [] c = "L" -> "l"
       [] c = "M" -> "m" [] c = "N" -> "n" [] c = "O" -> "o" [] c = "P" -> "p"
       [] c = "Q" -> "q" [] c = "R" -> "r" [] c = "S" -> "s" [] c = "T" -> "t"
       [] c = "U" -> "u" [] c = "V" -> "v" [] c = "W" -> "w" [] c = "X" -> "x"
       [] c = "Y" -> "y" [] c = "Z" -> "z"]

\* s.lower()
lower(s) ==
  [i \in 1..Len(s) |-> IF s[i] \in DOMAIN UpperToLower THEN UpperToLower[s[i]] ELSE s[i]]

\* s.startswith(prefix)
startswith(s, prefix) ==
  /\ Len(prefix) <= Len(s)
  /\ SubSeq(s, 1, Len(prefix)) = prefix

\* sub in s, for two strings
contains(s, sub) ==
  \E i \in 1..(Len(s) - Len(sub) + 1) : SubSeq(s, i, i + Len(sub) - 1) = sub

\* s.strip(chars): the longest prefix and suffix made of chars are removed.
RECURSIVE lstrip(_, _)
lstrip(s, chars) ==
  IF s # << >> /\ Head(s) \in chars THEN lstrip(Tail(s), chars) ELSE s

RECURSIVE rstrip(_, _)
rstrip(s, chars) ==
  IF s # << >> /\ s[Len(s)] \in chars THEN rstrip(SubSeq(s, 1, Len(s) - 1), chars) ELSE s

strip(s, chars) == rstrip(lstrip(s, chars), chars)

\* s.split(sep) for a one-character sep: empty pieces are kept.
RECURSIVE split(_, _)
split(s, sep) ==
  IF \A i \in 1..Len(s) : s[i] # sep
  THEN << s >>
  ELSE LET i == CHOOSE k \in 1..Len(s) : s[k] = sep /\ \A j \in 1..(k - 1) : s[j] # sep
       IN  << SubSeq(s, 1, i - 1) >> \o split(SubSeq(s, i + 1, Len(s)), sep)

\* f.readlines(): the lines of the text, each with its line end kept.
RECURSIVE readlines(_)
readlines(s) ==
  IF s = << >> THEN << >>
  ELSE IF \A i \in 1..Len(s) : s[i] # "\n"
  THEN << s >>
  ELSE LET i == CHOOSE k \in 1..Len(s) : s[k] = "\n" /\ \A j \in 1..(k - 1) : s[j] # "\n"
       IN  << SubSeq(s, 1, i) >> \o readlines(SubSeq(s, i + 1, Len(s)))

(***************************************************************************)
(* Python values and dicts.                                                *)
(***************************************************************************)
PyStr(s) == [t |-> "str", s |-> s]
PyInt(n) == [t |-> "int", n |-> n]
PyNone == [t |-> "NoneType"]
PyList(elems) == [t |-> "list", elems |-> elems]
PyDict(items) == [t |-> "dict", items |-> items]

\* key in d
dict_has(items, key) == \E i \in 1..Len(items) : items[i][1] = key

\* d[key], for a key of d
dict_item(items, key) == items[CHOOSE i \in 1..Len(items) : items[i][1] = key][2]

\* d.get(key, default)
dict_get(items, key, default) ==
  IF dict_has(items, key) THEN dict_item(items, key) ELSE default

\* d[key] = value: a key of d keeps its place, a new key goes last.
dict_set(items, key, value) ==
  IF dict_has(items, key)
  THEN [i \in 1..Len(items) |-> IF items[i][1] = key THEN << key, value >> ELSE items[i]]
  ELSE Append(items, << key, value >>)

\* {**a, **b} with the earlier value winning.
RECURSIVE dict_union_first_wins(_, _)
dict_union_first_wins(a, b) ==
  IF b = << >> THEN a
  ELSE dict_union_first_wins(IF dict_has(a, Head(b)[1]) THEN a ELSE Append(a, Head(b)),
                             Tail(b))

\* Lines 93-96, {**a, **b}: the items of a, then those of b, the later value winning.
RECURSIVE dict_union(_, _)
dict_union(a, b) ==
  IF b = << >> THEN a
  ELSE dict_union(dict_set(a, Head(b)[1], Head(b)[2]), Tail(b))

\* json.loads(text), on the texts a package.json holds here; any other text
\* is not valid JSON and raises json.JSONDecodeError.
json_loads(text) ==
  CASE text = Text_object_empty -> [exc |-> "none", val |-> PyDict(<< >>)]
    [] text = Text_pm_yarn ->
         [exc |-> "none",
          val |-> PyDict(<< << Str_packageManager, PyStr(Str_yarn3) >>,
                            << Str_dependencies, PyDict(<< << Str_a, PyStr(Str_1_0_0) >> >>) >> >>)]
    [] text = Text_pm_YarnUpper ->
         [exc |-> "none",
          val |-> PyDict(<< << Str_packageManager, PyStr(Str_YarnUpper) >> >>)]
    [] text = Text_pm_npm ->
         [exc |-> "none",
          val |-> PyDict(<< << Str_packageManager, PyStr(Str_npm9) >>,
                            << Str_devDependencies, PyDict(<< << Str_b, PyStr(Str_1_0_0) >> >>) >> >>)]
    [] text = Text_pm_number ->
         [exc |-> "none",
          val |-> PyDict(<< << Str_packageManager, PyInt(1) >>,
                            << Str_dependencies, PyDict(<< << Str_a, PyStr(Str_1_0_0) >> >>) >> >>)]
    [] text = Text_collision ->
         [exc |-> "none",
          val |-> PyDict(<< << Str_dependencies,
                               PyDict(<< << Str_a, PyStr(Str_1_0_0) >>,
                                         << Str_b, PyStr(Str_1_0_0) >> >>) >>,
                            << Str_devDependencies,
                               PyDict(<< << Str_a, PyStr(Str_2_0_0) >> >>) >> >>)]
    [] text = Text_array -> [exc |-> "none", val |-> PyList(<< PyInt(1) >>)]
    [] text = Text_string -> [exc |-> "none", val |-> PyStr(Str_packageManager_yarn)]
    [] text = Text_deps_null ->
         [exc |-> "none",
          val |-> PyDict(<< << Str_dependencies, PyNone >>,
                            << Str_devDependencies, PyDict(<< << Str_a, PyStr(Str_2_0_0) >> >>) >> >>)]
    [] OTHER -> [exc |-> "JSONDecodeError", val |-> PyNone]

(***************************************************************************)
(* Exceptions.  An except clause catches the exceptions of its class.      *)
(***************************************************************************)
Exceptions ==
  {"GitCommandError", "OSError", "JSONDecodeError", "TypeError", "AttributeError",
   "ConnectionError"}

\* except OSError, in the place of except Exception
except_OSError(exc) == exc = "OSError"

\* except Exception: every exception above derives from Exception.
except_Exception(exc) == exc \in Exceptions

\* except json.JSONDecodeError
except_JSONDecodeError(exc) == exc = "JSONDecodeError"

\* except git.GitCommandError
except_GitCommandError(exc) == exc = "GitCommandError"

(***************************************************************************)
(* The working tree.  A file is absent, a file with its text, or a file    *)
(* that open() cannot read (permissions, or bytes that are not UTF-8).     *)
(***************************************************************************)
Absent == [kind |-> "absent"]
Unreadable == [kind |-> "unreadable"]
File(text) == [kind |-> "file", text |-> text]

\* path.exists()
exists(file) == file.kind # "absent"

\* open(path).read()
read(file) ==
  IF file.kind = "file" THEN [exc |-> "none", val |-> file.text]
  ELSE [exc |-> "OSError", val |-> << >>]

(***************************************************************************)
(* DependencyScanner.detect_package_manager                                *)
(***************************************************************************)
\* Lines 50-53: whether the try block returns 'yarn'; exc is what it raises.
package_json_declares_yarn(package_json) ==
  LET content == read(package_json)
      loaded == json_loads(content.val)
      package_data == loaded.val
  IN  IF content.exc # "none" THEN [exc |-> content.exc, val |-> FALSE]
      ELSE IF loaded.exc # "none" THEN [exc |-> loaded.exc, val |-> FALSE]
      ELSE CASE package_data.t = "dict" ->
                  IF ~dict_has(package_data.items, Str_packageManager)
                  THEN [exc |-> "none", val |-> FALSE]
                  ELSE LET field == dict_item(package_data.items, Str_packageManager)
                       IN  IF field.t # "str"
                           THEN [exc |-> "AttributeError", val |-> FALSE]
                           ELSE [exc |-> "none", val |-> contains(lower(field.s), Str_yarn)]
             [] package_data.t = "list" ->
                  IF \E i \in 1..Len(package_data.elems) :
                       /\ package_data.elems[i].t = "str"
                       /\ package_data.elems[i].s = Str_packageManager
                  THEN [exc |-> "TypeError", val |-> FALSE]
                  ELSE [exc |-> "none", val |-> FALSE]
             [] package_data.t = "str" ->
                  IF contains(package_data.s, Str_packageManager)
                  THEN [exc |-> "TypeError", val |-> FALSE]
                  ELSE [exc |-> "none", val |-> FALSE]
             [] OTHER -> [exc |-> "TypeError", val |-> FALSE]

\* detect_package_manager with the two lock files looked at in the other order.
detect_package_manager_lock_first(directory) ==
  IF ~directory.exists THEN "None"
  ELSE IF exists(directory.package_lock) THEN "npm"
  ELSE IF exists(directory.yarn_lock) THEN "yarn"
  ELSE IF exists(directory.package_json)
       THEN IF package_json_declares_yarn(directory.package_json).val THEN "yarn" ELSE "npm"
  ELSE "None"

\* Lines 31-60: the manager of a directory, "yarn", "npm" or "None".
detect_package_manager(directory) ==
  IF ~directory.exists THEN "None"
  ELSE IF exists(directory.yarn_lock) THEN "yarn"
  ELSE IF exists(directory.package_lock) THEN "npm"
  ELSE IF exists(directory.package_json)
       THEN LET declared == package_json_declares_yarn(directory.package_json)
            IN  IF declared.exc = "none" /\ declared.val THEN "yarn"
                ELSE IF declared.exc = "none" \/ except_Exception(declared.exc) THEN "npm"
                ELSE "None"
  ELSE "None"

(***************************************************************************)
(* DependencyScanner.parse_dependencies                                    *)
(***************************************************************************)
Dependency(name, version) == [name |-> name, version |-> version]

\* The file a path names: a path is << directory, filename >>.
file_at(t, path) ==
  IF ~t[path[1]].exists THEN Absent
  ELSE CASE path[2] = "package.json" -> t[path[1]].package_json
         [] path[2] = "yarn.lock" -> t[path[1]].yarn_lock
         [] path[2] = "package-lock.json" -> t[path[1]].package_lock
         [] path[2] = "requirements.txt" -> t[path[1]].requirements

\* Lines 82-105, the try block of the package.json branch: the Dependency
\* records it appends, or the exception it raises before appending any.
package_json_block(file) ==
  LET content == read(file)
      loaded == json_loads(content.val)
      package_data == loaded.val
      deps == dict_get(package_data.items, Str_dependencies, PyDict(<< >>))
      devs == dict_get(package_data.items, Str_devDependencies, PyDict(<< >>))
      dependencies == dict_union(deps.items, devs.items)
  IN  IF content.exc # "none" THEN [exc |-> content.exc, val |-> << >>]
      ELSE IF strip(content.val, Whitespace) = << >> THEN [exc |-> "none", val |-> << >>]
      ELSE IF loaded.exc # "none" THEN [exc |-> loaded.exc, val |-> << >>]
      ELSE IF package_data.t # "dict" THEN [exc |-> "none", val |-> << >>]
      ELSE IF deps.t # "dict" \/ devs.t # "dict" THEN [exc |-> "TypeError", val |-> << >>]
      ELSE [exc |-> "none",
            val |-> [i \in 1..Len(dependencies) |->
                       Dependency(dependencies[i][1], dependencies[i][2])]]

\* Lines 107-110: the handlers of the package.json branch.
package_json_branch(file) ==
  LET block == package_json_block(file)
  IN  IF block.exc = "none" THEN block
      ELSE IF except_JSONDecodeError(block.exc) \/ except_Exception(block.exc)
      THEN [exc |-> "none", val |-> << >>]
      ELSE block

\* Lines 123-134, one line of a yarn.lock: the names collected after it.
yarn_lock_line(raw_line, dependencies) ==
  LET line == strip(raw_line, Whitespace)
      package_line == strip(line, {"\""})
      parts == split(package_line, "@")
      current_package ==
        IF startswith(parts[1], << "@" >>)
        THEN << "@" >> \o split(parts[2], ",")[1]
        ELSE parts[1]
  IN  IF /\ startswith(line, << "\"" >>)
         /\ \E i \in 1..Len(package_line) : package_line[i] = "@"
         /\ current_package # << >>
         /\ \A i \in 1..Len(dependencies) : dependencies[i] # current_package
      THEN Append(dependencies, current_package)
      ELSE dependencies

\* Lines 121-134: the loop over content.split('\n').
RECURSIVE yarn_lock_lines(_, _)
yarn_lock_lines(lines, dependencies) ==
  IF lines = << >> THEN dependencies
  ELSE yarn_lock_lines(Tail(lines), yarn_lock_line(Head(lines), dependencies))

\* Lines 115-143, the yarn.lock branch with its handler.
yarn_lock_branch(file) ==
  LET content == read(file)
      dependencies == yarn_lock_lines(split(content.val, "\n"), << >>)
  IN  IF content.exc # "none"
      THEN IF except_Exception(content.exc) THEN [exc |-> "none", val |-> << >>]
           ELSE [exc |-> content.exc, val |-> << >>]
      ELSE [exc |-> "none",
            val |-> [i \in 1..Len(dependencies) |->
                       Dependency(dependencies[i], PyStr(Str_unknown))]]

\* Line 151: the filter of the requirements.txt comprehension.
requirement_kept(line) ==
  /\ strip(line, Whitespace) # << >>
  /\ ~startswith(line, << "#" >>)

\* Lines 146-160, the python branch with its handler.
python_branch(file) ==
  LET content == read(file)
      requirements == SelectSeq(readlines(content.val), requirement_kept)
  IN  IF content.exc # "none"
      THEN IF except_Exception(content.exc) THEN [exc |-> "none", val |-> << >>]
           ELSE [exc |-> content.exc, val |-> << >>]
      ELSE [exc |-> "none",
            val |-> [i \in 1..Len(requirements) |->
                       Dependency(strip(requirements[i], Whitespace), PyStr(Str_unknown))]]

\* resolve_package_manager without the test of line 72: the manager is detected
\* again at every file.
resolve_package_manager_again(package_managers, t, directory) ==
  [d \in DOMAIN package_managers \cup {directory} |->
     IF d = directory THEN detect_package_manager(t[directory])
     ELSE package_managers[d]]

\* Lines 72-73: the manager of the directory is detected if not yet stored.
resolve_package_manager(package_managers, t, directory) ==
  IF directory \in DOMAIN package_managers THEN package_managers
  ELSE [d \in DOMAIN package_managers \cup {directory} |->
          IF d = directory THEN detect_package_manager(t[directory])
          ELSE package_managers[d]]

\* dependencies_key by the kind of the manifest, not by the manager resolved.
dependencies_key_by_type(file_info, package_manager) == file_info.type

\* Lines 99, 136 and 153: the key of self.dependencies a file's records extend.
dependencies_key(file_info, package_manager) ==
  CASE file_info.type = "python" -> "python"
    [] file_info.path[2] = "yarn.lock" -> "yarn"
    [] OTHER -> package_manager

\* parse_dependencies without the return of lines 76-78: a package.json of a
\* directory whose manager is unknown is parsed as that of an npm directory.
parse_dependencies_unknown_as_npm(package_managers, dependencies, t, file_info) ==
  LET file_path == file_info.path
      directory == file_path[1]
      file == file_at(t, file_path)
      managers == resolve_package_manager(package_managers, t, directory)
      package_manager == IF managers[directory] = "None" THEN "npm" ELSE managers[directory]
      from_json == package_json_branch(file)
      from_yarn == yarn_lock_branch(file)
      from_python == python_branch(file)
      leave(pms, deps, used, exc) ==
        [package_managers |-> pms, dependencies |-> deps, used |-> used,
         exc |-> IF except_Exception(exc) THEN "none" ELSE exc]
  IN  IF file_info.type \in {"npm", "yarn"}
      THEN IF file_path[2] = "package.json"
           THEN leave(managers,
                      [dependencies EXCEPT ![dependencies_key(file_info, package_manager)] =
                                             @ \o from_json.val],
                      managers[directory], from_json.exc)
           ELSE IF file_path[2] = "yarn.lock" /\ package_manager = "yarn"
           THEN leave(managers,
                      [dependencies EXCEPT ![dependencies_key(file_info, package_manager)] =
                                             @ \o from_yarn.val],
                      managers[directory], from_yarn.exc)
           ELSE leave(managers, dependencies, managers[directory], "none")
      ELSE IF file_info.type = "python"
      THEN leave(package_managers,
                 [dependencies EXCEPT ![dependencies_key(file_info, "None")] =
                                        @ \o from_python.val],
                 "None", from_python.exc)
      ELSE leave(package_managers, dependencies, "None", "none")

\* parse_dependencies(file_info) on a scanner with these package_managers and
\* dependencies: the two as it leaves them, the manager it used (used) and the
\* exception that leaves it (exc).
parse_dependencies(package_managers, dependencies, t, file_info) ==
  LET file_path == file_info.path
      directory == file_path[1]
      file == file_at(t, file_path)
      managers == resolve_package_manager(package_managers, t, directory)
      package_manager == managers[directory]
      from_json == package_json_branch(file)
      from_yarn == yarn_lock_branch(file)
      from_python == python_branch(file)
      leave(pms, deps, used, exc) ==
        [package_managers |-> pms, dependencies |-> deps, used |-> used,
         exc |-> IF except_Exception(exc) THEN "none" ELSE exc]
  IN  IF file_info.type \in {"npm", "yarn"}
      THEN IF package_manager = "None"
           THEN leave(managers, dependencies, package_manager, "none")
           ELSE IF file_path[2] = "package.json"
           THEN leave(managers,
                      [dependencies EXCEPT ![dependencies_key(file_info, package_manager)] =
                                             @ \o from_json.val],
                      package_manager, from_json.exc)
           ELSE IF file_path[2] = "yarn.lock" /\ package_manager = "yarn"
           THEN leave(managers,
                      [dependencies EXCEPT ![dependencies_key(file_info, package_manager)] =
                                             @ \o from_yarn.val],
                      package_manager, from_yarn.exc)
           ELSE leave(managers, dependencies, package_manager, "none")
      ELSE IF file_info.type = "python"
      THEN leave(package_managers,
                 [dependencies EXCEPT ![dependencies_key(file_info, "None")] =
                                        @ \o from_python.val],
                 "None", from_python.exc)
      ELSE leave(package_managers, dependencies, "None", "none")

(***************************************************************************)
(* Working trees and repositories.                                         *)
(***************************************************************************)
\* A repository has at most two directories with manifests: its root and one
\* directory below it.
Dirs == {"repo", "repo/app"}

NoDir ==
  [exists |-> FALSE, yarn_lock |-> Absent, package_lock |-> Absent,
   package_json |-> Absent, requirements |-> Absent]

Dir(yarn_lock, package_lock, package_json, requirements) ==
  [exists |-> TRUE, yarn_lock |-> yarn_lock, package_lock |-> package_lock,
   package_json |-> package_json, requirements |-> requirements]

YarnLocks ==
  {Absent, Unreadable, File(Text_yarn_scoped), File(Text_yarn_lodash), File(Text_yarn_a)}

PackageLocks == {Absent, File(Text_object_empty)}

PackageJsons ==
  {Absent, Unreadable} \cup
  {File(text) : text \in {Text_empty, Text_blank, Text_malformed, Text_object_empty,
                          Text_pm_yarn, Text_pm_YarnUpper, Text_pm_npm, Text_pm_number,
                          Text_collision, Text_array, Text_string, Text_deps_null}}

Requirements == {Absent, Unreadable, File(Text_req_example), File(Text_req_indented)}

\* Every content of one directory.
DirContents ==
  {Dir(y, l, j, r) : y \in YarnLocks, l \in PackageLocks, j \in PackageJsons,
                     r \in Requirements}

Tree(root, app) == [d \in Dirs |-> IF d = "repo" THEN root ELSE app]

NoTree == Tree(NoDir, NoDir)

\* The working trees of one directory.
SingleTrees == {Tree(root, NoDir) : root \in DirContents}

\* Working trees of two directories that name the same packages.
TreeWorkspace ==
  Tree(Dir(File(Text_yarn_a), Absent, File(Text_pm_yarn), Absent),
       Dir(Absent, File(Text_object_empty), File(Text_collision), File(Text_req_indented)))

TreeMixed ==
  Tree(Dir(Absent, Absent, File(Text_malformed), File(Text_req_example)),
       Dir(File(Text_yarn_scoped), Absent, File(Text_pm_npm), Absent))

TreePlain == Tree(Dir(Absent, Absent, File(Text_collision), Absent), NoDir)

Repo(name, clone_url) == [name |-> name, clone_url |-> clone_url]

RepoA == Repo(Str_a, "https://github.com/org/a.git")
RepoB == Repo(Str_b, "https://github.com/org/b.git")
RepoC == Repo(Str_c, "https://github.com/org/c.git")

Catalogue == {RepoA, RepoB, RepoC}

\* What git.Repo.clone_from finds at each clone url: a working tree, or the
\* exception it raises.
OrganizationOrigin ==
  [url \in {r.clone_url : r \in Catalogue} |->
     CASE url = RepoA.clone_url -> [exc |-> "none", tree |-> TreePlain]
       [] url = RepoB.clone_url -> [exc |-> "GitCommandError", tree |-> NoTree]
       [] url = RepoC.clone_url -> [exc |-> "none", tree |-> TreeWorkspace]]

\* The most repositories an organization lists.
MaxRepos == 2

\* The sequences of at most n distinct elements of S.
RECURSIVE SeqsWithoutRepeat(_, _)
SeqsWithoutRepeat(S, n) ==
  IF n = 0 THEN {<< >>}
  ELSE LET shorter == SeqsWithoutRepeat(S, n - 1)
           longer == UNION {{Append(s, x) : x \in S \ {s[i] : i \in 1..Len(s)}} :
                              s \in shorter}
       IN  shorter \cup longer

\* The orders in which a directory listing may give the elements of S.
RECURSIVE Permutations_(_)
Permutations_(S) ==
  IF S = {} THEN {<< >>}
  ELSE UNION {{<< x >> \o p : p \in Permutations_(S \ {x})} : x \in S}

(***************************************************************************)
(* State.                                                                  *)
(***************************************************************************)
VARIABLES
  GITHUB_TOKEN,      \* line 15; "None" when the environment does not set it
  ORGANIZATION,      \* line 17; "None" when the environment does not set it
  EXCLUDED_REPOS,    \* line 16: the list the environment's text splits into
  organization,      \* the repositories get_organization_repos returns
  origin,            \* what a clone of each clone url gives
  pc,                \* where main() is: "start", "loop", "scan", "done", "crashed"
  repos,             \* main's repos
  repo_idx,          \* the position of main's for loop in repos
  results,           \* main's results
  scan_pc,           \* where scan_repository is
  scanner,           \* the DependencyScanner of the scan
  tree,              \* the working tree in the scan's temporary directory
  dependency_files,  \* scan_repository's dependency_files
  file_idx,          \* the position of its for loop in dependency_files
  package_manager,   \* the manager the last parse_dependencies call used
  vulnerabilities,   \* check_vulnerabilities' vulnerabilities
  dep_idx            \* the position of its loops in the dependencies

vars ==
  << GITHUB_TOKEN, ORGANIZATION, EXCLUDED_REPOS, organization, origin, pc, repos,
     repo_idx, results, scan_pc, scanner, tree, dependency_files, file_idx,
     package_manager, vulnerabilities, dep_idx >>

config_vars == << GITHUB_TOKEN, ORGANIZATION, EXCLUDED_REPOS, organization, origin >>

\* DependencyScanner.__init__
DependencyScanner(repo_url, repo_name) ==
  [repo_url |-> repo_url, repo_name |-> repo_name, repo_path |-> "None",
   package_managers |-> [d \in {} |-> "None"],
   dependencies |-> [k \in {"npm", "yarn", "python"} |-> << >>]]

NoScanner == DependencyScanner("None", << >>)

\* The texts EXCLUDED_REPOS may hold in the environment.
ExcludedEnvs == {Env_unset, Env_b, Env_a_b, Env_a_space_b}

\* No scan is running.
ScanIdle ==
  /\ scan_pc = "idle"
  /\ scanner = NoScanner
  /\ tree = NoTree
  /\ dependency_files = << >>
  /\ file_idx = 1
  /\ package_manager = "None"
  /\ vulnerabilities = << >>
  /\ dep_idx = 1

MainStart ==
  /\ pc = "start"
  /\ repos = << >>
  /\ repo_idx = 1
  /\ results = << >>
  /\ ScanIdle

\* An organization of at most MaxRepos repositories of the catalogue.
InitOrganization ==
  /\ GITHUB_TOKEN \in {"None", "token"}
  /\ ORGANIZATION \in {"None", "org"}
  /\ \E env \in ExcludedEnvs : EXCLUDED_REPOS = split(env, ",")
  /\ organization \in SeqsWithoutRepeat(Catalogue, MaxRepos)
  /\ origin = OrganizationOrigin
  /\ MainStart

\* An organization of one repository, of any working tree of one directory.
InitRepository ==
  /\ GITHUB_TOKEN = "token"
  /\ ORGANIZATION = "org"
  /\ EXCLUDED_REPOS = split(Env_unset, ",")
  /\ organization = << RepoA >>
  /\ \E t \in SingleTrees \cup {TreeMixed} :
       origin = [OrganizationOrigin EXCEPT ![RepoA.clone_url] = [exc |-> "none", tree |-> t]]
  /\ MainStart

Init == InitOrganization \/ InitRepository

(***************************************************************************)
(* main                                                                    *)
(***************************************************************************)
\* Lines 289-304: main returns at once without a token or an organization, or
\* when no repository is returned.
Main_Fetch ==
  /\ pc = "start"
  /\ IF GITHUB_TOKEN = "None" \/ ORGANIZATION = "None"
     THEN pc' = "done" /\ repos' = repos
     ELSE /\ repos' = organization
          /\ pc' = IF organization = << >> THEN "done" ELSE "loop"
  /\ UNCHANGED << config_vars, repo_idx, results, scan_pc, scanner, tree,
                  dependency_files, file_idx, package_manager, vulnerabilities, dep_idx >>

\* Lines 313-315: a repository named in EXCLUDED_REPOS is skipped.
Main_Skip ==
  /\ pc = "loop"
  /\ repo_idx <= Len(repos)
  /\ \E i \in 1..Len(EXCLUDED_REPOS) : EXCLUDED_REPOS[i] = repos[repo_idx].name
  /\ repo_idx' = repo_idx + 1
  /\ UNCHANGED << config_vars, pc, repos, results, scan_pc, scanner, tree,
                  dependency_files, file_idx, package_manager, vulnerabilities, dep_idx >>

\* Lines 317-318 and 265-267: main calls scan_repository, which makes its scanner.
Main_Scan ==
  /\ pc = "loop"
  /\ repo_idx <= Len(repos)
  /\ \A i \in 1..Len(EXCLUDED_REPOS) : EXCLUDED_REPOS[i] # repos[repo_idx].name
  /\ pc' = "scan"
  /\ scan_pc' = "Cloning"
  /\ scanner' = DependencyScanner(repos[repo_idx].clone_url, repos[repo_idx].name)
  /\ UNCHANGED << config_vars, repos, repo_idx, results, tree, dependency_files,
                  file_idx, package_manager, vulnerabilities, dep_idx >>

\* Lines 322-324: the loop is over and the report is written.
Main_Report ==
  /\ pc = "loop"
  /\ repo_idx > Len(repos)
  /\ pc' = "done"
  /\ UNCHANGED << config_vars, repos, repo_idx, results, scan_pc, scanner, tree,
                  dependency_files, file_idx, package_manager, vulnerabilities, dep_idx >>

(***************************************************************************)
(* scan_repository                                                         *)
(***************************************************************************)
\* The scan is over: its temporary directory and its scanner are gone.
ScanOver ==
  /\ scan_pc' = "idle"
  /\ scanner' = NoScanner
  /\ tree' = NoTree
  /\ dependency_files' = << >>
  /\ file_idx' = 1
  /\ package_manager' = "None"
  /\ vulnerabilities' = << >>
  /\ dep_idx' = 1

\* Lines 318-320: scan_repository returns result, main appends it.
scan_return(result) ==
  /\ results' = Append(results, result)
  /\ repo_idx' = repo_idx + 1
  /\ pc' = "loop"
  /\ ScanOver

\* scan_raise as clone_repository handles its exception: printed, raised again.
scan_raise_again(exc) ==
  /\ pc' = "crashed"
  /\ UNCHANGED << results, repo_idx >>
  /\ ScanOver

\* scan_raise with no result for the repository: the loop goes on to the next.
scan_raise_no_result(exc) ==
  /\ results' = results
  /\ repo_idx' = repo_idx + 1
  /\ pc' = "loop"
  /\ ScanOver

\* Lines 281-286: an exception in the try block of scan_repository.
scan_raise(exc) ==
  IF except_Exception(exc)
  THEN scan_return([repo_name |-> scanner.repo_name, error |-> exc])
  ELSE /\ pc' = "crashed"
       /\ UNCHANGED << results, repo_idx >>
       /\ ScanOver

\* Lines 200-208: the exception that leaves clone_repository. A GitCommandError
\* is printed and raised again; no other exception is caught.
clone_repository(cloned) ==
  IF except_GitCommandError(cloned.exc) THEN cloned.exc ELSE cloned.exc

\* Line 268: scanner.clone_repository(temp_dir)
Scan_Clone ==
  /\ scan_pc = "Cloning"
  /\ LET cloned == origin[scanner.repo_url]
     IN  IF clone_repository(cloned) = "none"
         THEN /\ tree' = cloned.tree
              /\ scanner' = [scanner EXCEPT !.repo_path = "temp_dir"]
              /\ scan_pc' = "Locating"
              /\ UNCHANGED << pc, repo_idx, results, dependency_files, file_idx,
                              package_manager, vulnerabilities, dep_idx >>
         ELSE scan_raise(clone_repository(cloned))
  /\ UNCHANGED << config_vars, repos >>

\* Lines 225-232
get_file_type(filename) ==
  CASE filename = "package.json" -> "npm"
    [] filename = "yarn.lock" -> "yarn"
    [] filename = "requirements.txt" -> "python"

\* Lines 216-221: the manifests of one directory, as find_dependency_files
\* records them.
manifests(t, d) ==
  {[path |-> << d, name >>, type |-> get_file_type(name), directory |-> d] :
     name \in {n \in {"package.json", "yarn.lock", "requirements.txt"} :
                 exists(file_at(t, << d, n >>))}}

\* Lines 210-223: rglob gives the entries of the root, then those of the
\* directory below it, each directory's in the order of its listing.
find_dependency_files(t) ==
  {root \o app : root \in Permutations_(manifests(t, "repo")),
                 app \in Permutations_(manifests(t, "repo/app"))}

\* Line 270: the traversal gives the manifests, or fails on a directory it
\* cannot read.
Scan_Locate ==
  /\ scan_pc = "Locating"
  /\ \/ \E found \in find_dependency_files(tree) :
          /\ dependency_files' = found
          /\ file_idx' = 1
          /\ scan_pc' = "Parsing"
          /\ UNCHANGED << pc, repo_idx, results, scanner, tree, package_manager,
                          vulnerabilities, dep_idx >>
     \/ scan_raise("OSError")
  /\ UNCHANGED << config_vars, repos >>

\* Lines 271-272: one turn of the loop over dependency_files.
Scan_Parse ==
  /\ scan_pc = "Parsing"
  /\ file_idx <= Len(dependency_files)
  /\ LET parsed == parse_dependencies(scanner.package_managers, scanner.dependencies,
                                      tree, dependency_files[file_idx])
     IN  IF parsed.exc = "none"
         THEN /\ scanner' = [scanner EXCEPT !.package_managers = parsed.package_managers,
                                            !.dependencies = parsed.dependencies]
              /\ package_manager' = parsed.used
              /\ file_idx' = file_idx + 1
              /\ UNCHANGED << pc, repo_idx, results, scan_pc, tree, dependency_files,
                              vulnerabilities, dep_idx >>
         ELSE scan_raise(parsed.exc)
  /\ UNCHANGED << config_vars, repos >>

\* Line 274: the loop is over, check_vulnerabilities starts.
Scan_Parsed ==
  /\ scan_pc = "Parsing"
  /\ file_idx > Len(dependency_files)
  /\ scan_pc' = "LookingUpAdvisories"
  /\ vulnerabilities' = << >>
  /\ dep_idx' = 1
  /\ UNCHANGED << config_vars, pc, repos, repo_idx, results, scanner, tree,
                  dependency_files, file_idx, package_manager >>

(***************************************************************************)
(* DependencyScanner.check_vulnerabilities                                 *)
(***************************************************************************)
\* Lines 174-178: the dependencies in the order of the two loops, each with the
\* key of its list.
dependency_items(dependencies) ==
  LET of(dep_type) ==
        [i \in 1..Len(dependencies[dep_type]) |->
           [dep_type |-> dep_type, dep |-> dependencies[dep_type][i]]]
  IN  of("npm") \o of("yarn") \o of("python")

\* The advisories GitHub holds for a package name.
advisories(dep_name) == IF dep_name = Str_a THEN << "GHSA-a" >> ELSE << >>

\* Lines 181-185: requests.get raises, or returns a response with a status and
\* a body that response.json() decodes or not.
requests_get(dep_name) ==
  {[exc |-> "ConnectionError", status_code |-> 0,
    json |-> [exc |-> "none", val |-> << >>]]}
  \cup
  {[exc |-> "none", status_code |-> status_code, json |-> json] :
     status_code \in {200, 403, 500},
     json \in {[exc |-> "none", val |-> advisories(dep_name)],
               [exc |-> "JSONDecodeError", val |-> << >>]}}

\* Lines 187-196: what one response adds to vulnerabilities, or the exception
\* raised on the way.
check_response(item, response) ==
  IF response.exc # "none" THEN [exc |-> response.exc, val |-> << >>]
  ELSE IF response.status_code # 200 THEN [exc |-> "none", val |-> << >>]
  ELSE IF response.json.exc # "none" THEN [exc |-> response.json.exc, val |-> << >>]
  ELSE IF response.json.val = << >> THEN [exc |-> "none", val |-> << >>]
  ELSE [exc |-> "none",
        val |-> << [dependency |-> item.dep.name, type |-> item.dep_type,
                    version |-> item.dep.version,
                    vulnerabilities |-> response.json.val] >>]

\* Lines 178-196: one turn of the loops of check_vulnerabilities.
Scan_Lookup ==
  /\ scan_pc = "LookingUpAdvisories"
  /\ dep_idx <= Len(dependency_items(scanner.dependencies))
  /\ \E response \in requests_get(dependency_items(scanner.dependencies)[dep_idx].dep.name) :
       LET checked == check_response(dependency_items(scanner.dependencies)[dep_idx],
                                     response)
       IN  IF checked.exc = "none"
           THEN /\ vulnerabilities' = vulnerabilities \o checked.val
                /\ dep_idx' = dep_idx + 1
                /\ UNCHANGED << pc, repo_idx, results, scan_pc, scanner, tree,
                                dependency_files, file_idx, package_manager >>
           ELSE scan_raise(checked.exc)
  /\ UNCHANGED << config_vars, repos >>

\* Lines 276-280: the loops are over and scan_repository returns its result.
Scan_Done ==
  /\ scan_pc = "LookingUpAdvisories"
  /\ dep_idx > Len(dependency_items(scanner.dependencies))
  /\ scan_return([repo_name |-> scanner.repo_name,
                  dependencies |-> scanner.dependencies,
                  vulnerabilities |-> vulnerabilities])
  /\ UNCHANGED << config_vars, repos >>

Next ==
  \/ Main_Fetch
  \/ Main_Skip
  \/ Main_Scan
  \/ Main_Report
  \/ Scan_Clone
  \/ Scan_Locate
  \/ Scan_Parse
  \/ Scan_Parsed
  \/ Scan_Lookup
  \/ Scan_Done

Spec == Init /\ [][Next]_vars

(***************************************************************************)
(* The working tree changes under the scan: while the scan parses, another *)
(* process working in the temporary directory removes a yarn.lock or a     *)
(* package.json, or writes a package-lock.json or a package.json.          *)
(***************************************************************************)
FsChange ==
  /\ scan_pc = "Parsing"
  /\ \E d \in {x \in Dirs : tree[x].exists} :
       \/ /\ exists(tree[d].yarn_lock)
          /\ tree' = [tree EXCEPT ![d].yarn_lock = Absent]
       \/ /\ ~exists(tree[d].package_lock)
          /\ tree' = [tree EXCEPT ![d].package_lock = File(Text_object_empty)]
       \/ /\ exists(tree[d].package_json)
          /\ tree' = [tree EXCEPT ![d].package_json = Absent]
       \/ /\ ~exists(tree[d].package_json)
          /\ tree' = [tree EXCEPT ![d].package_json = File(Text_collision)]
  /\ UNCHANGED << config_vars, pc, repos, repo_idx, results, scan_pc, scanner,
                  dependency_files, file_idx, package_manager, vulnerabilities, dep_idx >>

TreeApp ==
  Tree(Dir(Absent, Absent, File(Text_pm_yarn), File(Text_req_example)), NoDir)

TreeYarnApp ==
  Tree(Dir(File(Text_yarn_a), Absent, File(Text_pm_npm), File(Text_req_indented)), NoDir)

\* An organization whose working trees change while they are scanned.
InitChanging ==
  /\ GITHUB_TOKEN = "token"
  /\ ORGANIZATION = "org"
  /\ \E env \in {Env_unset, Env_b} : EXCLUDED_REPOS = split(env, ",")
  /\ organization \in {<< RepoA >>, << RepoB, RepoA >>}
  /\ \E t \in {TreeApp, TreeYarnApp} :
       origin = [OrganizationOrigin EXCEPT ![RepoA.clone_url] = [exc |-> "none", tree |-> t]]
  /\ MainStart

NextChanging == Next \/ FsChange

SpecChanging == InitChanging /\ [][NextChanging]_vars

(***************************************************************************)
(* Properties.                                                             *)
(***************************************************************************)
\* The package.json texts whose packageManager field is a string that holds
\* "yarn" in some mix of cases.
DeclaresYarn(package_json) ==
  /\ package_json.kind = "file"
  /\ package_json.text \in {Text_pm_yarn, Text_pm_YarnUpper}

\* The precedence of section 4.2.
Precedence(directory) ==
  CASE exists(directory.yarn_lock) -> "yarn"
    [] ~exists(directory.yarn_lock) /\ exists(directory.package_lock) -> "npm"
    [] /\ ~exists(directory.yarn_lock)
       /\ ~exists(directory.package_lock)
       /\ exists(directory.package_json) ->
         IF DeclaresYarn(directory.package_json) THEN "yarn" ELSE "npm"
    [] OTHER -> "None"

\* C1: detect_package_manager follows the precedence yarn.lock, then
\* package-lock.json, then the packageManager field of package.json (npm when
\* the field is absent, does not name yarn or the file is not valid JSON), then
\* unknown: on every directory of the working tree, and in every value the scan
\* has stored.
C1_Precedence ==
  /\ \A d \in Dirs : detect_package_manager(tree[d]) = Precedence(tree[d])
  /\ \A d \in DOMAIN scanner.package_managers :
       scanner.package_managers[d] = Precedence(tree[d])

\* A directory with yarn.lock, package-lock.json and a package.json that names
\* npm has been resolved to yarn.
C1_Witness ==
  /\ "repo" \in DOMAIN scanner.package_managers
  /\ scanner.package_managers["repo"] = "yarn"
  /\ exists(tree["repo"].yarn_lock)
  /\ exists(tree["repo"].package_lock)
  /\ tree["repo"].package_json = File(Text_pm_npm)

\* C2: within one scan a directory's manager is resolved at most once.  A
\* stored value (the unknown value too) stays as it is while the scan lasts,
\* and a parse of a package.json or yarn.lock of a directory that has a stored
\* value uses that value, whatever the directory holds by then.
C2_ResolvedOnce ==
  [][\A d \in DOMAIN scanner.package_managers :
       /\ scan_pc' # "idle" =>
            /\ d \in DOMAIN scanner'.package_managers
            /\ scanner'.package_managers[d] = scanner.package_managers[d]
       /\ ( /\ scan_pc = "Parsing"
            /\ file_idx' = file_idx + 1
            /\ dependency_files[file_idx].type \in {"npm", "yarn"}
            /\ dependency_files[file_idx].path[1] = d )
          => package_manager' = scanner.package_managers[d]]_vars

\* Two manifests of one directory have been parsed with the stored value, unknown,
\* and the directory would by now resolve to a manager.
C2_Witness ==
  /\ scan_pc = "Parsing"
  /\ file_idx >= 3
  /\ dependency_files[file_idx - 1].type \in {"npm", "yarn"}
  /\ dependency_files[file_idx - 2].type \in {"npm", "yarn"}
  /\ dependency_files[file_idx - 1].path[1] = dependency_files[file_idx - 2].path[1]
  /\ LET d == dependency_files[file_idx - 1].path[1]
     IN  /\ scanner.package_managers[d] = "None"
         /\ package_manager = "None"
         /\ detect_package_manager(tree[d]) # "None"

\* The step that parses the file at file_idx.
ParseStep ==
  /\ scan_pc = "Parsing"
  /\ file_idx <= Len(dependency_files)
  /\ file_idx' = file_idx + 1

\* The file the step parses.
ParsedFile == file_at(tree, dependency_files[file_idx].path)

\* What the step appends, over the three lists.
Added ==
  LET added(k) == SubSeq(scanner'.dependencies[k], Len(scanner.dependencies[k]) + 1,
                         Len(scanner'.dependencies[k]))
  IN  added("npm") \o added("yarn") \o added("python")

\* The step keeps what the three lists held.
Extends ==
  \A k \in {"npm", "yarn", "python"} :
    /\ Len(scanner'.dependencies[k]) >= Len(scanner.dependencies[k])
    /\ SubSeq(scanner'.dependencies[k], 1, Len(scanner.dependencies[k])) =
         scanner.dependencies[k]

\* The names of the scoped packages a yarn.lock text names in its header lines:
\* the quoted token starts with @, and the name runs to the next @.
ScopedNames(text) ==
  LET lines == split(text, "\n")
      header(i) == strip(lines[i], Whitespace)
  IN  {<< "@" >> \o split(SubSeq(header(i), 3, Len(header(i))), "@")[1] :
         i \in {j \in 1..Len(lines) : startswith(header(j), << "\"", "@" >>)}}

\* C3: after the parse of a yarn.lock whose header line names a scoped package,
\* the yarn list holds exactly one Dependency of the scoped name, with version
\* 'unknown'.
C3_ScopedRecorded ==
  scan_pc \in {"Parsing", "LookingUpAdvisories"} =>
    \A k \in 1..(file_idx - 1) :
      LET file == file_at(tree, dependency_files[k].path)
      IN  (dependency_files[k].path[2] = "yarn.lock" /\ file.kind = "file") =>
            \A name \in ScopedNames(file.text) :
              Cardinality({i \in 1..Len(scanner.dependencies["yarn"]) :
                             scanner.dependencies["yarn"][i] =
                               Dependency(name, PyStr(Str_unknown))}) = 1

\* The decoded package.json is an object whose dependencies and devDependencies,
\* where present, are maps.
ObjectOfMaps(text) ==
  LET loaded == json_loads(text)
  IN  /\ loaded.exc = "none"
      /\ loaded.val.t = "dict"
      /\ \A i \in 1..Len(loaded.val.items) :
           loaded.val.items[i][1] \in {Str_dependencies, Str_devDependencies} =>
             loaded.val.items[i][2].t = "dict"

\* The << name, specifier >> pairs of one of the two maps of a package.json.
MapOf(text, field) ==
  LET items == json_loads(text).val.items
  IN  UNION {{items[i][2].items[j] : j \in 1..Len(items[i][2].items)} :
               i \in {k \in 1..Len(items) : items[k][1] = field}}

\* One Dependency per name of the two maps, the devDependencies specifier
\* where both name it.
UnionOfMaps(text) ==
  LET deps == MapOf(text, Str_dependencies)
      devs == MapOf(text, Str_devDependencies)
  IN  {Dependency(p[1], p[2]) : p \in devs} \cup
      {Dependency(p[1], p[2]) : p \in {q \in deps : \A r \in devs : r[1] # q[1]}}

\* C4: the parse of a package.json that decodes to an object of maps appends
\* one Dependency per distinct name of dependencies and devDependencies, with
\* the specifier as version and the devDependencies one where both name it;
\* {} , empty or whitespace-only content and a non-object value append nothing.
C4_PackageJson ==
  [][(ParseStep /\ dependency_files[file_idx].path[2] = "package.json"
                /\ ParsedFile.kind = "file") =>
       /\ Extends
       /\ IF \A i \in 1..Len(ParsedFile.text) : ParsedFile.text[i] \in Whitespace
          THEN Added = << >>
          ELSE IF json_loads(ParsedFile.text).exc # "none" THEN TRUE
          ELSE IF json_loads(ParsedFile.text).val.t # "dict" THEN Added = << >>
          ELSE ObjectOfMaps(ParsedFile.text) =>
                 /\ {Added[i] : i \in 1..Len(Added)} = UnionOfMaps(ParsedFile.text)
                 /\ Len(Added) = Cardinality(UnionOfMaps(ParsedFile.text))]_vars

\* A package.json that names a in both maps has just been parsed, and a is
\* recorded with the devDependencies specifier.
C4_Witness ==
  /\ scan_pc = "Parsing"
  /\ file_idx = 2
  /\ dependency_files[1].path[2] = "package.json"
  /\ file_at(tree, dependency_files[1].path) = File(Text_collision)
  /\ scanner.dependencies["npm"] =
       << Dependency(Str_a, PyStr(Str_2_0_0)), Dependency(Str_b, PyStr(Str_1_0_0)) >>

\* The trimmed lines of a requirements text that are not blank and do not
\* start with #, in the order of the file.
TrimmedRequirements(text) ==
  LET lines == readlines(text)
      trimmed == [i \in 1..Len(lines) |-> strip(lines[i], Whitespace)]
      kept(line) == line # << >> /\ ~startswith(line, << "#" >>)
  IN  SelectSeq(trimmed, kept)

\* C5: the parse of a requirements.txt appends to the python list exactly the
\* trimmed lines that are not blank and whose trimmed form does not start with
\* #, in file order, each with version 'unknown'.
C5_Requirements ==
  [][(ParseStep /\ dependency_files[file_idx].type = "python"
                /\ ParsedFile.kind = "file") =>
       scanner'.dependencies =
         [scanner.dependencies EXCEPT !["python"] =
            @ \o [i \in 1..Len(TrimmedRequirements(ParsedFile.text)) |->
                   Dependency(TrimmedRequirements(ParsedFile.text)[i],
                              PyStr(Str_unknown))]]]_vars

\* What the file at position k of dependency_files gives the list of a tag:
\* a package.json gives the list of the manager its directory resolved to, a
\* yarn.lock the yarn list, a requirements.txt the python list.
Contribution(k, tag) ==
  LET file_info == dependency_files[k]
      file == file_at(tree, file_info.path)
      resolved == scanner.package_managers[file_info.path[1]]
  IN  CASE file_info.path[2] = "package.json" ->
             IF tag = resolved THEN package_json_branch(file).val ELSE << >>
        [] file_info.path[2] = "yarn.lock" ->
             IF tag = "yarn" /\ resolved = "yarn" THEN yarn_lock_branch(file).val
             ELSE << >>
        [] file_info.path[2] = "requirements.txt" ->
             IF tag = "python" THEN python_branch(file).val ELSE << >>

RECURSIVE Contributions(_, _)
Contributions(k, tag) ==
  IF k = 0 THEN << >> ELSE Contributions(k - 1, tag) \o Contribution(k, tag)

\* C6: each list is what the files parsed so far give it, one after the other
\* in the order of discovery, nothing dropped and nothing merged.
C6_Aggregated ==
  scan_pc \in {"Parsing", "LookingUpAdvisories"} =>
    \A tag \in {"npm", "yarn", "python"} :
      scanner.dependencies[tag] = Contributions(file_idx - 1, tag)

\* The package.json and the yarn.lock of a directory resolved to yarn both name
\* a, and the yarn list holds a twice; the package.json of the directory below
\* names a again, in the npm list.
C6_Witness ==
  /\ scan_pc = "LookingUpAdvisories"
  /\ tree = TreeWorkspace
  /\ scanner.package_managers["repo"] = "yarn"
  /\ Cardinality({i \in 1..Len(scanner.dependencies["yarn"]) :
                    scanner.dependencies["yarn"][i].name = Str_a}) = 2
  /\ \E i \in 1..Len(scanner.dependencies["npm"]) :
       scanner.dependencies["npm"][i].name = Str_a

\* A manifest that cannot be parsed: open() raises, the JSON is malformed, or
\* dependencies is not a map.
FailsToParse(file_info, file) ==
  \/ file.kind = "unreadable"
  \/ /\ file_info.path[2] = "package.json"
     /\ file.kind = "file"
     /\ file.text \in {Text_malformed, Text_deps_null}

\* C7: parse_dependencies never raises. Each turn of the loop over the
\* discovered files leads to the next; a file that cannot be parsed leaves the
\* three lists as they were; the lookups start only when every file was parsed.
C7_NeverRaises ==
  [][/\ (scan_pc = "Parsing" /\ file_idx <= Len(dependency_files)) =>
          /\ pc' = "scan"
          /\ scan_pc' = "Parsing"
          /\ file_idx' = file_idx + 1
          /\ dependency_files' = dependency_files
          /\ FailsToParse(dependency_files[file_idx], ParsedFile) =>
               scanner'.dependencies = scanner.dependencies
     /\ scan_pc' = "LookingUpAdvisories" => file_idx' = Len(dependency_files') + 1]_vars

\* The first file was a package.json that cannot be parsed, and the file after
\* it was parsed and gave its dependencies.
C7_Witness ==
  /\ scan_pc = "Parsing"
  /\ file_idx = 3
  /\ FailsToParse(dependency_files[1], file_at(tree, dependency_files[1].path))
  /\ dependency_files[1].path[2] = "package.json"
  /\ dependency_files[2].type = "python"
  /\ Len(scanner.dependencies["python"]) = 2
  /\ scanner.dependencies["npm"] = << >>
  /\ scanner.dependencies["yarn"] = << >>

\* C8: a scan ends in one result for its repository and never takes main
\* down. A scan that ends before its last stage is over (an exception in the
\* clone, the traversal, a parse or a lookup) gives a result of repo_name and
\* error alone; a scan that ends after it gives a result of repo_name,
\* dependencies and vulnerabilities alone.
C8_ErrorAbsorbed ==
  [][pc = "scan" =>
       /\ pc' \in {"scan", "loop"}
       /\ pc' = "loop" =>
            /\ Len(results') = Len(results) + 1
            /\ SubSeq(results', 1, Len(results)) = results
            /\ LET result == results'[Len(results')]
               IN  /\ result.repo_name = scanner.repo_name
                   /\ IF /\ scan_pc = "LookingUpAdvisories"
                         /\ dep_idx > Len(dependency_items(scanner.dependencies))
                      THEN /\ DOMAIN result = {"repo_name", "dependencies", "vulnerabilities"}
                           /\ result.dependencies = scanner.dependencies
                           /\ result.vulnerabilities = vulnerabilities
                      ELSE DOMAIN result = {"repo_name", "error"}]_vars

\* The batch is over: the clone of its first repository failed, its second
\* repository was scanned to the end.
C8_Witness ==
  /\ pc = "done"
  /\ Len(results) = 2
  /\ DOMAIN results[1] = {"repo_name", "error"}
  /\ results[1].error = "GitCommandError"
  /\ DOMAIN results[2] = {"repo_name", "dependencies", "vulnerabilities"}
  /\ results[2].dependencies["npm"] # << >>

\* The names of a sequence of repositories or results.
RepoNames(rs) == [i \in 1..Len(rs) |-> rs[i].name]
ResultNames(rs) == [i \in 1..Len(rs) |-> rs[i].repo_name]

NotExcluded(name) == \A i \in 1..Len(EXCLUDED_REPOS) : EXCLUDED_REPOS[i] # name

\* C9, as claimed: when main is over, results holds one result per repository
\* returned for the organization, in their order.
C9_OnePerRepository ==
  pc = "done" => ResultNames(results) = RepoNames(repos)

\* C9, amended: main is never taken down, and when it is over results holds
\* one result per returned repository whose name is not in EXCLUDED_REPOS, in
\* their order, and none for a repository whose name is in it.
C9_OnePerScannedRepository ==
  /\ pc # "crashed"
  /\ pc = "done" => ResultNames(results) = SelectSeq(RepoNames(repos), NotExcluded)

\* The batch is over: of its two repositories one was excluded, the other has
\* its result.
C9_Witness ==
  /\ pc = "done"
  /\ Len(repos) = 2
  /\ Len(results) = 1
  /\ ~NotExcluded(repos[1].name)
  /\ results[1].repo_name = repos[2].name

\* C10: a lookup that fails (a status other than 200, an exception of the
\* request, a body that does not decode) is no advisory data and nothing more:
\* every lookup leads to the next one, with the dependencies kept and no result
\* given for the repository yet.
C10_LookupFailureAbsorbed ==
  [][(scan_pc = "LookingUpAdvisories" /\
      dep_idx <= Len(dependency_items(scanner.dependencies))) =>
       /\ pc' = "scan"
       /\ scan_pc' = "LookingUpAdvisories"
       /\ dep_idx' = dep_idx + 1
       /\ scanner' = scanner
       /\ results' = results]_vars

\* The directory of the file the step parses.
ParsedDirectory == dependency_files[file_idx].path[1]

\* The step parses a file of a directory whose manager is unknown: the value
\* was stored before the step, or the step resolves it.
UnknownStep ==
  /\ ParseStep
  /\ \/ /\ ParsedDirectory \in DOMAIN scanner.package_managers
        /\ scanner.package_managers[ParsedDirectory] = "None"
     \/ /\ ParsedDirectory \notin DOMAIN scanner.package_managers
        /\ ParsedDirectory \in DOMAIN scanner'.package_managers
        /\ scanner'.package_managers[ParsedDirectory] = "None"

\* C11 as stated: once the manager of a directory is unknown in a scan, the
\* parse of any manifest of that directory, its requirements.txt too, leaves
\* the three lists as they were.
C11_UnknownRecordsNothing ==
  [][UnknownStep => scanner'.dependencies = scanner.dependencies]_vars

\* C11: once the manager of a directory is unknown in a scan, the parse of a
\* package.json or yarn.lock of that directory leaves the three lists as they
\* were, whatever the file holds by then; a requirements.txt of that directory
\* does not go through the resolver and still extends the python list, and
\* only that list.
C11_UnknownSkipsNodeManifests ==
  [][UnknownStep =>
       /\ dependency_files[file_idx].type \in {"npm", "yarn"} =>
            scanner'.dependencies = scanner.dependencies
       /\ dependency_files[file_idx].type = "python" =>
            scanner'.dependencies =
              [scanner.dependencies EXCEPT !["python"] =
                 @ \o python_branch(ParsedFile).val]]_vars

\* All the manifests of a directory whose manager is unknown have been parsed,
\* the package.json last and at a time the directory holds one that names
\* dependencies: the npm and yarn lists are empty, and the python list holds
\* what the requirements.txt of the directory gave.
C11_Witness ==
  /\ scan_pc = "Parsing"
  /\ file_idx = Len(dependency_files) + 1
  /\ file_idx >= 3
  /\ dependency_files[file_idx - 1].path = << "repo", "package.json" >>
  /\ \E k \in 1..(file_idx - 2) : dependency_files[k].path = << "repo", "requirements.txt" >>
  /\ "repo" \in DOMAIN scanner.package_managers
  /\ scanner.package_managers["repo"] = "None"
  /\ tree["repo"].package_json = File(Text_collision)
  /\ scanner.dependencies["npm"] = << >>
  /\ scanner.dependencies["yarn"] = << >>
  /\ scanner.dependencies["python"] # << >>

=============================================================================
